---- MODULE Spec2Model ----
(***************************************************************************)
(* Model of atom/browser/ui/message_box_win.cc: the Windows message box of *)
(* the application shell.  One invocation of ShowMessageBox is a small     *)
(* state machine (pc); the UI thread, the per-invocation worker threads    *)
(* and the UI thread's task queue are modelled explicitly.                 *)
(*                                                                         *)
(* Strings are sequences of numbers: a std::string is a sequence of UTF-8  *)
(* bytes, a base::string16 a sequence of UTF-16 code units.  A C pointer   *)
(* is a tuple: <<>> is the null pointer, <<x>> points at x.                *)
(***************************************************************************)
EXTENDS Integers, Sequences, FiniteSets, TLC

(***************************************************************************)
(* Bounds of the model.                                                    *)
(***************************************************************************)
\* number of ShowMessageBox invocations in one behaviour
MaxInv == 2
\* longest button sequence of a request
MaxButtons == 2
\* longest message / detail string, in UTF-8 bytes
MaxStrLen == 2

(***************************************************************************)
(* Program and platform constants.                                         *)
(***************************************************************************)
kIDStart == 100
IDOK == 1
IDCANCEL == 2
\* thread identities: the UI (control) thread; invocation i's worker is i
UIThread == 0
NoThread == -1
\* U+FFFD, what the conversion writes for a malformed UTF-8 sequence
kReplacementChar == 65533

NULL == <<>>
Ptr(x) == <<x>>

Invs == 1..MaxInv
Worker(i) == i

Windows == {"W1"}
NoWindow == "NULL"
Parents == {NoWindow} \cup Windows

MessageBoxTypes ==
  {"MESSAGE_BOX_TYPE_NONE", "MESSAGE_BOX_TYPE_INFORMATION",
   "MESSAGE_BOX_TYPE_WARNING", "MESSAGE_BOX_TYPE_ERROR"}

NullImage == "null"
Images == {NullImage, "img"}

(***************************************************************************)
(* base::UTF8ToUTF16: one- and two-byte sequences are decoded, every       *)
(* malformed byte becomes U+FFFD and decoding resumes at the next byte.    *)
(***************************************************************************)
IsLead2(b) == b >= 194 /\ b <= 223
IsTrail(b) == b >= 128 /\ b <= 191

RECURSIVE UTF8ToUTF16(_)
UTF8ToUTF16(s) ==
  IF s = <<>> THEN <<>>
  ELSE LET b == Head(s) IN
       IF b < 128 THEN <<b>> \o UTF8ToUTF16(Tail(s))
       ELSE IF IsLead2(b) /\ Len(s) >= 2 /\ IsTrail(s[2])
            THEN <<(b % 32) * 64 + (s[2] % 64)>> \o UTF8ToUTF16(Tail(Tail(s)))
            ELSE <<kReplacementChar>> \o UTF8ToUTF16(Tail(s))

\* the UTF-8 bytes the model draws strings from: 'A', 0xC3, 0xA9
Utf8Bytes == {65, 195, 169}

RECURSIVE SeqsUpTo(_, _)
SeqsUpTo(S, n) ==
  IF n = 0 THEN {<<>>}
  ELSE LET shorter == SeqsUpTo(S, n - 1) IN
       shorter \cup {Append(s, x) : s \in shorter, x \in S}

Utf8Strings == SeqsUpTo(Utf8Bytes, MaxStrLen)

\* "OK" and "Cancel"
LabelOK == <<79, 75>>
LabelCancel == <<67, 97, 110, 99, 101, 108>>
ButtonLabels == {LabelOK, LabelCancel}

(***************************************************************************)
(* A request: the arguments of one ShowMessageBox call.                    *)
(***************************************************************************)
Request(parent, type, buttons, cancel_id, title, message, detail, icon) ==
  [parent |-> parent, type |-> type, buttons |-> buttons,
   cancel_id |-> cancel_id, title |-> title, message |-> message,
   detail |-> detail, icon |-> icon]

NoRequest ==
  Request(NoWindow, "MESSAGE_BOX_TYPE_NONE", <<>>, 0, <<>>, <<>>, <<>>, NullImage)

(***************************************************************************)
(* ShowMessageBoxUTF16, up to the native call: the dialog configuration.   *)
(***************************************************************************)
\* mutant: the identifiers are counted from one
DialogButtonsOneBased(buttons) ==
  [k \in 1..Len(buttons) |->
     [nButtonID |-> k + kIDStart, pszButtonText |-> Ptr(buttons[k])]]

\* dialog_buttons: button k (zero-based) gets the identifier k + kIDStart
DialogButtons(buttons) ==
  [k \in 1..Len(buttons) |->
     [nButtonID |-> (k - 1) + kIDStart, pszButtonText |-> Ptr(buttons[k])]]

\* &dialog_buttons.front(): of an empty vector the pointer is indeterminate
ButtonPointers(dialog_buttons) ==
  IF dialog_buttons = <<>> THEN {NULL, Ptr(<<>>)} ELSE {Ptr(dialog_buttons)}

DialogFlags(cancel_id) ==
  {"TDF_SIZE_TO_CONTENT"} \cup
  (IF cancel_id # 0 THEN {"TDF_ALLOW_DIALOG_CANCELLATION"} ELSE {})

\* IconUtil::CreateHICONFromSkBitmap: a handle for the bitmap, or none
CreateHICONFromSkBitmap(icon) == {<<"HICON", icon>>, NULL}

\* the switch over the dialog's type; a type it does not name leaves the field zero
TypeIcon(type) ==
  CASE type = "MESSAGE_BOX_TYPE_INFORMATION" -> <<"PSZ", "TD_INFORMATION_ICON">>
    [] type = "MESSAGE_BOX_TYPE_WARNING" -> <<"PSZ", "TD_WARNING_ICON">>
    [] type = "MESSAGE_BOX_TYPE_ERROR" -> <<"PSZ", "TD_ERROR_ICON">>
    [] OTHER -> NULL

\* mutant: the custom-icon flag is forgotten
MainIconFieldsNoFlag(type, icon, hicon) ==
  IF icon # NullImage
  THEN [flags |-> {}, mainIcon |-> hicon]
  ELSE [flags |-> {}, mainIcon |-> TypeIcon(type)]

\* hMainIcon and pszMainIcon are one union member of TASKDIALOGCONFIG: mainIcon
MainIconFields(type, icon, hicon) ==
  IF icon # NullImage
  THEN [flags |-> {"TDF_USE_HICON_MAIN"}, mainIcon |-> hicon]
  ELSE [flags |-> {}, mainIcon |-> TypeIcon(type)]

\* mutant: the message is always the main instruction
ContentFieldsAlwaysInstruction(message, detail) ==
  [pszMainInstruction |-> Ptr(message), pszContent |-> Ptr(detail)]

ContentFields(message, detail) ==
  IF detail = <<>>
  THEN [pszMainInstruction |-> NULL, pszContent |-> Ptr(message)]
  ELSE [pszMainInstruction |-> Ptr(message), pszContent |-> Ptr(detail)]

BuildConfig(parent, type, buttons, cancel_id, title, message, detail, icon, pButtons, hicon) ==
  LET ic == MainIconFields(type, icon, hicon)
      co == ContentFields(message, detail)
  IN [hwndParent |-> parent,
      dwFlags |-> DialogFlags(cancel_id) \cup ic.flags,
      pszWindowTitle |-> Ptr(title),
      pButtons |-> pButtons,
      cButtons |-> Len(DialogButtons(buttons)),
      mainIcon |-> ic.mainIcon,
      pszMainInstruction |-> co.pszMainInstruction,
      pszContent |-> co.pszContent]

NoConfig ==
  BuildConfig(NULL, "MESSAGE_BOX_TYPE_NONE", <<>>, 0, <<>>, <<>>, <<>>,
              NullImage, NULL, NULL)

\* NativeWindowViews::GetAcceleratedWidget, or NULL without a parent
ParentHwnd(parent) == IF parent # NoWindow THEN <<"HWND", parent>> ELSE NULL

\* the UTF-16 copy of the button labels
Utf16Buttons(buttons) == [k \in 1..Len(buttons) |-> UTF8ToUTF16(buttons[k])]

\* every configuration the sync overload can hand to TaskDialogIndirect for r
Configs(r) ==
  {BuildConfig(ParentHwnd(r.parent), r.type, Utf16Buttons(r.buttons),
               r.cancel_id, UTF8ToUTF16(r.title), UTF8ToUTF16(r.message),
               UTF8ToUTF16(r.detail), r.icon, pb, h) :
     pb \in ButtonPointers(DialogButtons(Utf16Buttons(r.buttons))),
     h \in (IF r.icon # NullImage THEN CreateHICONFromSkBitmap(r.icon)
            ELSE {NULL})}

(***************************************************************************)
(* TaskDialogIndirect: what the user can do with the dialog on screen, and *)
(* the identifier the native call stores for it.  Without custom buttons   *)
(* the dialog carries the default OK button; it can be dismissed (Esc, the *)
(* close box) only when TDF_ALLOW_DIALOG_CANCELLATION is set.              *)
(***************************************************************************)
Gesture(kind, pos) == [kind |-> kind, pos |-> pos]
NoGesture == Gesture("none", -1)

UserGestures(cfg) ==
  {Gesture("button", k - 1) : k \in 1..cfg.cButtons}
  \cup (IF cfg.cButtons = 0 THEN {Gesture("default_ok", -1)} ELSE {})
  \cup (IF "TDF_ALLOW_DIALOG_CANCELLATION" \in cfg.dwFlags
        THEN {Gesture("dismiss", -1)} ELSE {})

NativeId(cfg, g) ==
  CASE g.kind = "button" -> cfg.pButtons[1][g.pos + 1].nButtonID
    [] g.kind = "default_ok" -> IDOK
    [] g.kind = "dismiss" -> IDCANCEL
    [] OTHER -> 0

\* mutant: an identifier of 0 is not taken for a cancellation
MapResultCancelOnly(id, cancel_id) ==
  IF id = IDCANCEL THEN cancel_id ELSE id - kIDStart

\* the tail of ShowMessageBoxUTF16: the identifier mapped back to an index
MapResult(id, cancel_id) ==
  IF id = 0 \/ id = IDCANCEL THEN cancel_id ELSE id - kIDStart

(***************************************************************************)
(* State.                                                                  *)
(***************************************************************************)
VARIABLES
  pc,          \* pc[i]: where invocation i is
  mode,        \* "none", "sync" or "async": the overload invocation i called
  req,         \* the request of invocation i
  thread,      \* the thread that runs the sync overload for invocation i
  config,      \* the TASKDIALOGCONFIG handed to TaskDialogIndirect
  gesture,     \* what the user did with the dialog (history)
  id,          \* the local id of ShowMessageBoxUTF16
  result,      \* what the sync overload returns
  uiIn,        \* the invocation whose call the UI thread is inside, or 0
  uiQueue,     \* the tasks posted to the UI thread, in posting order
  threadObj,   \* the base::Thread object: "none", "alive", "destroyed"
  deletes,     \* how often the base::Thread object was destroyed (history)
  deletedBy,   \* the thread that destroyed it (history)
  cbRuns,      \* how often the callback of invocation i ran (history)
  cbValue,     \* the value it last ran with
  cbThread,    \* the thread it last ran on
  scopes,      \* scopes[w]: the invocations whose DialogScope on w is alive
  scopeBy      \* the threads that built and destroyed the DialogScope (history)

vars ==
  <<pc, mode, req, thread, config, gesture, id, result, uiIn, uiQueue,
    threadObj, deletes, deletedBy, cbRuns, cbValue, cbThread, scopes, scopeBy>>

\* variables of the sync path of one invocation
syncVars == <<config, gesture, id, result>>
\* variables of the async machinery
asyncVars == <<uiQueue, threadObj, deletes, deletedBy, cbRuns, cbValue, cbThread>>

Init ==
  /\ pc = [i \in Invs |-> "idle"]
  /\ mode = [i \in Invs |-> "none"]
  /\ req = [i \in Invs |-> NoRequest]
  /\ thread = [i \in Invs |-> NoThread]
  /\ config = [i \in Invs |-> NoConfig]
  /\ gesture = [i \in Invs |-> NoGesture]
  /\ id = [i \in Invs |-> 0]
  /\ result = [i \in Invs |-> 0]
  /\ uiIn = 0
  /\ uiQueue = <<>>
  /\ threadObj = [i \in Invs |-> "none"]
  /\ deletes = [i \in Invs |-> 0]
  /\ deletedBy = [i \in Invs |-> NoThread]
  /\ cbRuns = [i \in Invs |-> 0]
  /\ cbValue = [i \in Invs |-> 0]
  /\ cbThread = [i \in Invs |-> NoThread]
  /\ scopes = [w \in Windows |-> {}]
  /\ scopeBy = [i \in Invs |-> <<NoThread, NoThread>>]

(***************************************************************************)
(* NativeWindow::DialogScope: the marker of a window is held while a scope *)
(* built for it is alive; a scope built for no window marks nothing.       *)
(***************************************************************************)
DialogScopeEnter(sc, parent, i) ==
  IF parent # NoWindow THEN [sc EXCEPT ![parent] = @ \cup {i}] ELSE sc

DialogScopeExit(sc, parent, i) ==
  IF parent # NoWindow THEN [sc EXCEPT ![parent] = @ \ {i}] ELSE sc

MarkerHeld(w) == scopes[w] # {}

\* invocations are numbered in the order the UI thread makes the calls
NextCall(i) == pc[i] = "idle" /\ \A j \in Invs : j < i => pc[j] # "idle"

(***************************************************************************)
(* The sync overload of ShowMessageBox, run by thread t for invocation i.  *)
(***************************************************************************)
\* mutant: the DialogScope is a temporary, gone before the native call
EnterShowMessageBoxNoScope(i, t) ==
  /\ pc' = [pc EXCEPT ![i] = "scoped"]
  /\ thread' = [thread EXCEPT ![i] = t]
  /\ scopes' = scopes
  /\ scopeBy' = [scopeBy EXCEPT ![i] = <<t, t>>]

\* entry: the labels are converted, the parent's handle is taken and the
\* DialogScope is built
EnterShowMessageBox(i, t) ==
  /\ pc' = [pc EXCEPT ![i] = "scoped"]
  /\ thread' = [thread EXCEPT ![i] = t]
  /\ scopes' = DialogScopeEnter(scopes, req'[i].parent, i)
  /\ scopeBy' = [scopeBy EXCEPT ![i] = <<t, NoThread>>]

\* the UI thread calls the sync overload with a request of R
SyncCall(i, R) ==
  /\ uiIn = 0
  /\ NextCall(i)
  /\ \E r \in R : req' = [req EXCEPT ![i] = r]
  /\ mode' = [mode EXCEPT ![i] = "sync"]
  /\ uiIn' = i
  /\ EnterShowMessageBox(i, UIThread)
  /\ UNCHANGED <<syncVars, asyncVars>>

\* ShowMessageBoxUTF16 builds the configuration and calls TaskDialogIndirect:
\* the dialog comes up and the thread blocks in the call, or the call fails
\* and leaves id at 0
OpenDialog(i) ==
  /\ pc[i] = "scoped"
  /\ \E cfg \in Configs(req[i]) :
       /\ config' = [config EXCEPT ![i] = cfg]
       /\ \/ /\ pc' = [pc EXCEPT ![i] = "dialog"]
             /\ UNCHANGED <<gesture, id, result>>
          \/ /\ pc' = [pc EXCEPT ![i] = "mapped"]
             /\ gesture' = [gesture EXCEPT ![i] = Gesture("fail", -1)]
             /\ id' = [id EXCEPT ![i] = 0]
             /\ result' = [result EXCEPT ![i] = MapResult(0, req[i].cancel_id)]
  /\ UNCHANGED <<mode, req, thread, uiIn, asyncVars, scopes, scopeBy>>

\* the user closes the dialog: TaskDialogIndirect stores the identifier and
\* returns, and the identifier is mapped to the result
CloseDialog(i) ==
  /\ pc[i] = "dialog"
  /\ \E g \in UserGestures(config[i]) :
       /\ gesture' = [gesture EXCEPT ![i] = g]
       /\ id' = [id EXCEPT ![i] = NativeId(config[i], g)]
       /\ result' = [result EXCEPT ![i] =
                       MapResult(NativeId(config[i], g), req[i].cancel_id)]
  /\ pc' = [pc EXCEPT ![i] = "mapped"]
  /\ UNCHANGED <<mode, req, thread, config, uiIn, asyncVars, scopes, scopeBy>>

\* the sync overload returns: the DialogScope is destroyed; the UI thread is
\* free again, or the worker goes on in RunMessageBoxInNewThread
SyncReturn(i) ==
  /\ pc[i] = "mapped"
  /\ scopes' = DialogScopeExit(scopes, req[i].parent, i)
  /\ scopeBy' = [scopeBy EXCEPT ![i] = <<@[1], thread[i]>>]
  /\ IF mode[i] = "sync"
     THEN /\ pc' = [pc EXCEPT ![i] = "done"]
          /\ uiIn' = 0
     ELSE /\ pc' = [pc EXCEPT ![i] = "post_cb"]
          /\ UNCHANGED uiIn
  /\ UNCHANGED <<mode, req, thread, syncVars, asyncVars>>

(***************************************************************************)
(* The async overload of ShowMessageBox and RunMessageBoxInNewThread.      *)
(***************************************************************************)
Task(kind, i, value) == [kind |-> kind, inv |-> i, value |-> value]

\* callback.Run(v) on thread t
RunCallback(i, v, t) ==
  /\ cbRuns' = [cbRuns EXCEPT ![i] = @ + 1]
  /\ cbValue' = [cbValue EXCEPT ![i] = v]
  /\ cbThread' = [cbThread EXCEPT ![i] = t]

\* the base::Thread object of invocation i is destroyed by thread t
DestroyThread(i, t) ==
  /\ threadObj' = [threadObj EXCEPT ![i] = "destroyed"]
  /\ deletes' = [deletes EXCEPT ![i] = @ + 1]
  /\ deletedBy' = [deletedBy EXCEPT ![i] = t]

\* mutant: the failed start returns without running the callback
AsyncStartFailSilent(i, R) ==
  /\ uiIn = 0
  /\ NextCall(i)
  /\ \E r \in R : req' = [req EXCEPT ![i] = r]
  /\ mode' = [mode EXCEPT ![i] = "async"]
  /\ threadObj' = [threadObj EXCEPT ![i] = "alive"]
  /\ pc' = [pc EXCEPT ![i] = "failed_cb"]
  /\ uiIn' = i
  /\ UNCHANGED <<thread, syncVars, uiQueue, deletes, deletedBy, cbRuns,
                 cbValue, cbThread, scopes, scopeBy>>

\* the UI thread calls the async overload and thread->Start() fails: the
\* callback runs with the cancel index inside the call
AsyncStartFail(i, R) ==
  /\ uiIn = 0
  /\ NextCall(i)
  /\ \E r \in R : req' = [req EXCEPT ![i] = r]
  /\ mode' = [mode EXCEPT ![i] = "async"]
  /\ threadObj' = [threadObj EXCEPT ![i] = "alive"]
  /\ RunCallback(i, req'[i].cancel_id, UIThread)
  /\ pc' = [pc EXCEPT ![i] = "failed_cb"]
  /\ uiIn' = i
  /\ UNCHANGED <<thread, syncVars, uiQueue, deletes, deletedBy, scopes, scopeBy>>

\* ... and the call returns: the scoped_ptr destroys the thread object
AsyncFailReturn(i) ==
  /\ pc[i] = "failed_cb"
  /\ DestroyThread(i, UIThread)
  /\ pc' = [pc EXCEPT ![i] = "done"]
  /\ uiIn' = 0
  /\ UNCHANGED <<mode, req, thread, syncVars, uiQueue, cbRuns, cbValue,
                 cbThread, scopes, scopeBy>>

\* mutant: the dialog is run by the calling thread, inside the call
AsyncStartOkInline(i, R) ==
  /\ uiIn = 0
  /\ NextCall(i)
  /\ \E r \in R : req' = [req EXCEPT ![i] = r]
  /\ mode' = [mode EXCEPT ![i] = "async"]
  /\ threadObj' = [threadObj EXCEPT ![i] = "alive"]
  /\ uiIn' = i
  /\ EnterShowMessageBox(i, UIThread)
  /\ UNCHANGED <<syncVars, uiQueue, deletes, deletedBy, cbRuns, cbValue,
                 cbThread>>

\* the UI thread calls the async overload and the worker starts: the task is
\* posted to the worker's message loop and the call returns
AsyncStartOk(i, R) ==
  /\ uiIn = 0
  /\ NextCall(i)
  /\ \E r \in R : req' = [req EXCEPT ![i] = r]
  /\ mode' = [mode EXCEPT ![i] = "async"]
  /\ threadObj' = [threadObj EXCEPT ![i] = "alive"]
  /\ pc' = [pc EXCEPT ![i] = "posted"]
  /\ UNCHANGED <<thread, syncVars, uiIn, uiQueue, deletes, deletedBy, cbRuns,
                 cbValue, cbThread, scopes, scopeBy>>

\* the worker takes the task: RunMessageBoxInNewThread calls the sync overload
WorkerRun(i) ==
  /\ pc[i] = "posted"
  /\ UNCHANGED req
  /\ EnterShowMessageBox(i, Worker(i))
  /\ UNCHANGED <<mode, syncVars, uiIn, asyncVars>>

\* mutant: DeleteSoon is posted before the callback
WorkerPostsDeleteFirst(i) ==
  <<[kind |-> "delete", inv |-> i, value |-> 0],
    [kind |-> "callback", inv |-> i, value |-> result[i]]>>

\* the two tasks RunMessageBoxInNewThread posts to the UI thread, in order
WorkerPosts(i) ==
  <<Task("callback", i, result[i]), Task("delete", i, 0)>>

\* mutant: the worker runs the callback itself
PostCallbackOnWorker(i) ==
  /\ pc[i] = "post_cb"
  /\ RunCallback(i, result[i], Worker(i))
  /\ pc' = [pc EXCEPT ![i] = "post_delete"]
  /\ UNCHANGED <<mode, req, thread, syncVars, uiIn, uiQueue, threadObj,
                 deletes, deletedBy, scopes, scopeBy>>

\* BrowserThread::PostTask(UI, Bind(callback, result))
PostCallback(i) ==
  /\ pc[i] = "post_cb"
  /\ uiQueue' = Append(uiQueue, WorkerPosts(i)[1])
  /\ pc' = [pc EXCEPT ![i] = "post_delete"]
  /\ UNCHANGED <<mode, req, thread, syncVars, uiIn, threadObj, deletes,
                 deletedBy, cbRuns, cbValue, cbThread, scopes, scopeBy>>

\* BrowserThread::DeleteSoon(UI, thread); the worker's task ends
PostDeleteSoon(i) ==
  /\ pc[i] = "post_delete"
  /\ uiQueue' = Append(uiQueue, WorkerPosts(i)[2])
  /\ pc' = [pc EXCEPT ![i] = "worker_done"]
  /\ UNCHANGED <<mode, req, thread, syncVars, uiIn, threadObj, deletes,
                 deletedBy, cbRuns, cbValue, cbThread, scopes, scopeBy>>

\* the UI thread's message loop runs the next task: a bound callback
UIRunCallback ==
  /\ uiIn = 0
  /\ uiQueue # <<>>
  /\ Head(uiQueue).kind = "callback"
  /\ RunCallback(Head(uiQueue).inv, Head(uiQueue).value, UIThread)
  /\ uiQueue' = Tail(uiQueue)
  /\ UNCHANGED <<pc, mode, req, thread, syncVars, uiIn, threadObj, deletes,
                 deletedBy, scopes, scopeBy>>

\* ... or a DeleteSoon: ~Thread() joins the worker, whose task has to be over
UIDeleteThread ==
  /\ uiIn = 0
  /\ uiQueue # <<>>
  /\ Head(uiQueue).kind = "delete"
  /\ pc[Head(uiQueue).inv] = "worker_done"
  /\ DestroyThread(Head(uiQueue).inv, UIThread)
  /\ uiQueue' = Tail(uiQueue)
  /\ UNCHANGED <<pc, mode, req, thread, syncVars, uiIn, cbRuns, cbValue,
                 cbThread, scopes, scopeBy>>

(***************************************************************************)
(* Specifications.                                                         *)
(***************************************************************************)
\* the spec's scenario (buttons "OK", "Cancel", cancel index 1), with and
\* without a parent window
ScenarioRequests ==
  {Request(p, "MESSAGE_BOX_TYPE_INFORMATION", <<LabelOK, LabelCancel>>, 1,
           <<65>>, <<65>>, <<>>, NullImage) :
     p \in Parents}

Step(i, R) ==
  \/ SyncCall(i, R)
  \/ AsyncStartFail(i, R)
  \/ AsyncStartOk(i, R)
  \/ AsyncFailReturn(i)
  \/ WorkerRun(i)
  \/ OpenDialog(i)
  \/ CloseDialog(i)
  \/ SyncReturn(i)
  \/ PostCallback(i)
  \/ PostDeleteSoon(i)

Next ==
  \/ \E i \in Invs : Step(i, ScenarioRequests)
  \/ UIRunCallback
  \/ UIDeleteThread

Spec == Init /\ [][Next]_vars

\* what the thread inside invocation i does next without another call of the
\* UI thread: the steps of the sync overload (the user closing the dialog
\* among them), of the worker's task and of the failed async call
Progress(i) ==
  \/ AsyncFailReturn(i)
  \/ WorkerRun(i)
  \/ OpenDialog(i)
  \/ CloseDialog(i)
  \/ SyncReturn(i)
  \/ PostCallback(i)
  \/ PostDeleteSoon(i)

\* every thread that can run does run, the user closes every dialog that is
\* on screen, and the UI thread's message loop takes its tasks
Fairness ==
  /\ \A i \in Invs : WF_vars(Progress(i))
  /\ WF_vars(UIRunCallback \/ UIDeleteThread)

\* the scenario on the one window; the same steps as Next
OwnedRequests == {r \in ScenarioRequests : r.parent \in Windows}

NextOwned ==
  \/ \E i \in Invs : Step(i, OwnedRequests)
  \/ UIRunCallback
  \/ UIDeleteThread

FairSpec == Init /\ [][NextOwned]_vars /\ Fairness

(***************************************************************************)
(* The sync overload alone, called once by the UI thread, over a wide set  *)
(* of requests: every button sequence and cancel index, and every type,    *)
(* icon, message and detail.                                               *)
(***************************************************************************)
CancelIds == -1..MaxButtons

ButtonRequests ==
  {Request(NoWindow, "MESSAGE_BOX_TYPE_NONE", b, c, <<65>>, <<65>>, <<>>,
           NullImage) :
     b \in SeqsUpTo(ButtonLabels, MaxButtons), c \in CancelIds}

ContentRequests ==
  {Request("W1", t, <<LabelOK>>, 0, <<65>>, m, d, ic) :
     t \in MessageBoxTypes, m \in Utf8Strings, d \in Utf8Strings,
     ic \in Images}

SyncRequests == ButtonRequests \cup ContentRequests

NextSync ==
  \/ SyncCall(1, SyncRequests)
  \/ OpenDialog(1)
  \/ CloseDialog(1)
  \/ SyncReturn(1)

SpecSync == Init /\ [][NextSync]_vars

(***************************************************************************)
(* Properties.                                                             *)
(***************************************************************************)
\* the native call of invocation i is over and its result is computed
Mapped(i) == pc[i] \notin {"idle", "posted", "scoped", "dialog", "failed_cb"}
             /\ thread[i] # NoThread
\* the configuration of invocation i has been built
Configured(i) == pc[i] = "dialog" \/ Mapped(i)
\* the sync overload, called by the UI thread, has returned
SyncReturned(i) == mode[i] = "sync" /\ pc[i] = "done"

\* the text of dialog button k (zero-based) of invocation i, as configured
ButtonText(i, k) == config[i].pButtons[1][k + 1].pszButtonText

(* C1: when the user chooses the button at position k of the dialog, which
   carries label k of the request, the sync overload's result is k, whatever
   the cancel index is. *)
C1_ChosenButtonIsResult ==
  \A i \in Invs :
    (Mapped(i) /\ gesture[i].kind = "button") =>
      /\ gesture[i].pos \in 0..(Len(req[i].buttons) - 1)
      /\ ButtonText(i, gesture[i].pos)
           = Ptr(UTF8ToUTF16(req[i].buttons[gesture[i].pos + 1]))
      /\ id[i] = gesture[i].pos + kIDStart
      /\ result[i] = gesture[i].pos

\* the sync overload has returned 1 for the second of two buttons although the
\* cancel index is 0
C1_Witness ==
  /\ SyncReturned(1)
  /\ Len(req[1].buttons) = 2
  /\ req[1].cancel_id = 0
  /\ gesture[1] = Gesture("button", 1)
  /\ result[1] = 1

(* C2: when the native call stores no identifier (it failed, id stays 0) or
   stores IDCANCEL (the user dismissed the dialog), the sync overload's result
   is the caller's cancel index, the same in both cases. *)
C2_NoIdOrCancelGivesCancelId ==
  \A i \in Invs :
    Mapped(i) =>
      /\ (id[i] = 0 \/ id[i] = IDCANCEL) => result[i] = req[i].cancel_id
      /\ gesture[i].kind = "fail" => id[i] = 0
      /\ gesture[i].kind = "dismiss" => id[i] = IDCANCEL
      /\ gesture[i].kind \in {"fail", "dismiss"} => result[i] = req[i].cancel_id

\* the native call failed for a request whose cancel index is -1, and the sync
\* overload has returned -1
C2_Witness ==
  /\ SyncReturned(1)
  /\ Len(req[1].buttons) = 2
  /\ req[1].cancel_id = -1
  /\ gesture[1].kind = "fail"
  /\ id[1] = 0
  /\ result[1] = -1

(* C6: the sync overload's result is a zero-based index into the request's
   button sequence or the request's cancel index, for every button sequence,
   the empty one included. *)
C6_ResultIsIndexOrCancelId ==
  \A i \in Invs :
    Mapped(i) =>
      \/ result[i] \in 0..(Len(req[i].buttons) - 1)
      \/ result[i] = req[i].cancel_id

(* C7: with an empty detail the content is the message and there is no main
   instruction; with a non-empty detail the main instruction is the message
   and the content is the detail. *)
C7_ContentAndInstruction ==
  \A i \in Invs :
    Configured(i) =>
      /\ req[i].detail = <<>> =>
           /\ config[i].pszContent = Ptr(UTF8ToUTF16(req[i].message))
           /\ config[i].pszMainInstruction = NULL
      /\ req[i].detail # <<>> =>
           /\ config[i].pszMainInstruction = Ptr(UTF8ToUTF16(req[i].message))
           /\ config[i].pszContent = Ptr(UTF8ToUTF16(req[i].detail))
           /\ config[i].pszContent # Ptr(<<>>)

\* a dialog is configured for a two-byte message and a detail that is one
\* malformed byte
C7_Witness ==
  /\ Configured(1)
  /\ req[1].message = <<195, 169>>
  /\ req[1].detail = <<169>>
  /\ config[1].pszMainInstruction = Ptr(<<233>>)
  /\ config[1].pszContent = Ptr(<<kReplacementChar>>)

BuiltInIcons ==
  {<<"PSZ", "TD_INFORMATION_ICON">>, <<"PSZ", "TD_WARNING_ICON">>,
   <<"PSZ", "TD_ERROR_ICON">>}

(* C8: with an icon image the configuration carries the converted icon and
   the custom-icon flag and no built-in icon, whatever the type; without one
   the flag is clear and the built-in icon is the type's own. *)
C8_IconPrecedence ==
  \A i \in Invs :
    Configured(i) =>
      /\ req[i].icon # NullImage =>
           /\ "TDF_USE_HICON_MAIN" \in config[i].dwFlags
           /\ config[i].mainIcon \in CreateHICONFromSkBitmap(req[i].icon)
           /\ config[i].mainIcon \notin BuiltInIcons
      /\ req[i].icon = NullImage =>
           /\ "TDF_USE_HICON_MAIN" \notin config[i].dwFlags
           /\ req[i].type = "MESSAGE_BOX_TYPE_INFORMATION" =>
                config[i].mainIcon = <<"PSZ", "TD_INFORMATION_ICON">>
           /\ req[i].type = "MESSAGE_BOX_TYPE_WARNING" =>
                config[i].mainIcon = <<"PSZ", "TD_WARNING_ICON">>
           /\ req[i].type = "MESSAGE_BOX_TYPE_ERROR" =>
                config[i].mainIcon = <<"PSZ", "TD_ERROR_ICON">>

\* a warning dialog is configured with the caller's icon
C8_Witness ==
  /\ Configured(1)
  /\ req[1].type = "MESSAGE_BOX_TYPE_WARNING"
  /\ req[1].icon # NullImage
  /\ config[1].mainIcon = <<"HICON", req[1].icon>>

\* invocation i called the async overload and thread->Start() failed
StartFailed(i) == mode[i] = "async" /\ pc[i] \in {"failed_cb", "done"}
\* invocation i called the async overload and its worker started
Started(i) == mode[i] = "async" /\ pc[i] \notin {"idle", "failed_cb", "done"}
\* the native dialog of invocation i is on screen
OnScreen(i) == pc[i] = "dialog"
\* the UI thread's queue holds a task of this kind for invocation i
Queued(kind, i) ==
  \E k \in DOMAIN uiQueue : uiQueue[k].kind = kind /\ uiQueue[k].inv = i

(* C3: when the worker fails to start, the callback has run exactly once,
   with the cancel index, on the calling thread, inside the call; no dialog
   is shown, nothing is posted to the worker or to the UI thread, and the
   callback never runs again. *)
C3_StartFailureRunsCallbackInline ==
  \A i \in Invs :
    /\ mode[i] = "async" => pc[i] # "idle" /\ cbRuns[i] <= 1
    /\ StartFailed(i) =>
         /\ cbRuns[i] = 1
         /\ cbValue[i] = req[i].cancel_id
         /\ cbThread[i] = UIThread
         /\ pc[i] = "failed_cb" => uiIn = i
         /\ thread[i] = NoThread
         /\ gesture[i] = NoGesture
         /\ config[i] = NoConfig
         /\ ~Queued("callback", i)
         /\ ~Queued("delete", i)

\* a failed async call has returned, its callback has run with the cancel
\* index 1, and another invocation has a dialog on screen
C3_Witness ==
  \E i, j \in Invs :
    /\ StartFailed(i)
    /\ pc[i] = "done"
    /\ cbRuns[i] = 1
    /\ cbValue[i] = 1
    /\ OnScreen(j)

(* C5: the async overload's call is over while its dialog is being shown,
   and the native call is made by the worker, never by the calling thread;
   the sync overload's caller stays inside the call until the native call
   has returned. *)
C5_AsyncDoesNotBlockCaller ==
  \A i \in Invs :
    /\ Started(i) =>
         /\ uiIn # i
         /\ pc[i] \in {"scoped", "dialog", "mapped"} =>
              thread[i] = Worker(i) /\ thread[i] # UIThread
    /\ mode[i] = "sync" =>
         /\ pc[i] \in {"scoped", "dialog", "mapped"} =>
              uiIn = i /\ thread[i] = UIThread
         /\ pc[i] = "done" => gesture[i] # NoGesture /\ uiIn # i

\* the worker's dialog is on screen while the UI thread is inside a later
\* call of the sync overload
C5_Witness ==
  \E i, j \in Invs :
    /\ Started(i)
    /\ OnScreen(i)
    /\ mode[j] = "sync"
    /\ uiIn = j

(* C10: while the dialog of a call with a parent is on screen the parent's
   marker is held; it is held from the entry of the sync overload until the
   result is computed and released when the overload returns; in the async
   path it is taken and released by the worker and is released when the
   callback runs. *)
C10_DialogScopeHeld ==
  \A i \in Invs :
    req[i].parent # NoWindow =>
      /\ OnScreen(i) => MarkerHeld(req[i].parent)
      /\ pc[i] \in {"scoped", "dialog", "mapped"} => i \in scopes[req[i].parent]
      /\ pc[i] \notin {"scoped", "dialog", "mapped"} =>
           i \notin scopes[req[i].parent]
      /\ (Started(i) /\ pc[i] # "posted") => scopeBy[i][1] = Worker(i)
      /\ (Started(i) /\ Mapped(i) /\ pc[i] # "mapped") =>
           scopeBy[i][2] = Worker(i)
      /\ (Started(i) /\ cbRuns[i] > 0) => i \notin scopes[req[i].parent]
      /\ SyncReturned(i) => scopeBy[i] = <<UIThread, UIThread>>

\* two dialogs of the same parent are on screen, one shown by a worker
C10_Witness ==
  \E i, j \in Invs :
    /\ i # j
    /\ req[i].parent = "W1"
    /\ req[j].parent = "W1"
    /\ OnScreen(i)
    /\ OnScreen(j)
    /\ Started(i)
    /\ scopes["W1"] = {i, j}

\* what holds of the callback of a started async call in every state
CallbackSafety(i) ==
  /\ cbRuns[i] <= 1
  /\ (Started(i) /\ cbRuns[i] = 1) =>
       /\ cbThread[i] = UIThread
       /\ cbThread[i] # Worker(i)
       /\ Mapped(i)
       /\ cbValue[i] = result[i]
       /\ cbValue[i] = MapResult(id[i], req[i].cancel_id)

(* C4: for every async call whose worker starts, the callback eventually
   runs, exactly once, on the UI thread, with the result of that call's own
   dialog, also with several calls in flight. *)
C4_CallbackOnceOnUIThread ==
  /\ [](\A i \in Invs : CallbackSafety(i))
  /\ \A i \in Invs : Started(i) ~> (Started(i) /\ cbRuns[i] = 1)

\* two async calls have had their callbacks, with different results
C4_Witness ==
  \E i, j \in Invs :
    /\ Started(i)
    /\ Started(j)
    /\ cbRuns[i] = 1
    /\ cbRuns[j] = 1
    /\ cbValue[i] = 0
    /\ cbValue[j] = 1

\* the delete task of invocation i at place k of the UI thread's queue comes
\* after the callback task, or the callback has already run
DeleteAfterCallback(k) ==
  (uiQueue[k].kind = "delete") =>
    \/ cbRuns[uiQueue[k].inv] = 1
    \/ \E j \in 1..(k - 1) :
         uiQueue[j].kind = "callback" /\ uiQueue[j].inv = uiQueue[k].inv

\* what holds of the thread object of an async call in every state
ThreadSafety(i) ==
  /\ deletes[i] <= 1
  /\ threadObj[i] = "destroyed" <=> deletes[i] = 1
  /\ deletes[i] = 1 => deletedBy[i] = UIThread /\ deletedBy[i] # Worker(i)
  /\ (mode[i] = "async" /\ pc[i] # "done" /\ pc[i] # "worker_done") =>
       threadObj[i] = "alive"
  /\ (StartFailed(i) /\ pc[i] = "done") => threadObj[i] = "destroyed"
  /\ (Started(i) /\ threadObj[i] = "destroyed") =>
       cbRuns[i] = 1 /\ ~OnScreen(i)
  /\ mode[i] = "sync" => threadObj[i] = "none"

(* C9: the thread object of an async call exists before the dialog is shown
   and is destroyed exactly once: on the failure path before the call
   returns, otherwise by the UI thread, by a task posted after the callback
   task and run after the callback, never with the dialog on screen and never
   by the worker. *)
C9_ThreadDestroyedOnce ==
  /\ [](\A i \in Invs : ThreadSafety(i))
  /\ [](\A k \in DOMAIN uiQueue : DeleteAfterCallback(k))
  /\ \A i \in Invs : (mode[i] = "async") ~> (threadObj[i] = "destroyed")

\* the UI thread has destroyed the worker of one call while the dialog of
\* another is on screen and the thread of a failed call is gone too
C9_Witness ==
  \E i, j \in Invs :
    /\ Started(i)
    /\ threadObj[i] = "destroyed"
    /\ deletedBy[i] = UIThread
    /\ cbRuns[i] = 1
    /\ OnScreen(j)
====
